---- MODULE Spec2Model ----
(***************************************************************************)
(* Model of processar_arquivos.py: blur_faces_in_images and                *)
(* blur_faces_in_videos.                                                   *)
(*                                                                         *)
(* One run of one of the two functions is modelled.  The input list is     *)
(* revealed one item at a time (the for loop's iterator), the file system, *)
(* the decoder and the detector are the environment: their answers are     *)
(* chosen with \E from small sets.  Coordinates returned by the detector   *)
(* are floats in the code; here they are counted in half pixels, so that   *)
(* int() is a real truncation.  Confidences are counted in hundredths.     *)
(* GaussianBlur is an external call; it is modelled as the mean of the     *)
(* region (what a large kernel does to a small region).                    *)
(* Streams are tracked by the explicit release() calls of the code.        *)
(***************************************************************************)
EXTENDS Integers, Sequences, FiniteSets, TLC

\* ---------------------------------------------------------------- bounds
MaxInputs == 2
MaxFrames == 4
MaxInterval == 2
MaxBoxes == 1
FrameW == 3
FrameH == 2

\* confidence_threshold=0.5, in hundredths
Threshold == 50

\* ------------------------------------------------------------ input sets
\* A path is the sequence of its components; two of them share a basename.
Paths == { <<"a", "x">>, <<"b", "x">>, <<"a", "y">> }

output_dir == "out"

Confs == { Threshold - 1, Threshold, Threshold + 1 }

\* Detector boxes (x1, y1, x2, y2) in half pixels, each with x1 <= x2, y1 <= y2.
\* BoxOverhang: (-0.5, -0.5, W+1, 1.5), partly outside the frame.
BoxOverhang == << -1, -1, 2 * FrameW + 2, 3 >>
\* BoxNegative: (-3, -3, -1, -1), wholly outside at negative coordinates.
BoxNegative == << -6, -6, -2, -2 >>
\* BoxBeyond: (W+1, H+1, W+3, H+3), wholly outside beyond the far corner.
BoxBeyond == << 2 * FrameW + 2, 2 * FrameH + 2, 2 * FrameW + 6, 2 * FrameH + 6 >>

RawBoxes == { BoxOverhang, BoxNegative, BoxBeyond }

\* (box, confidence) pairs: one box at every confidence around the threshold,
\* the boxes outside the frame at a confidence above it.
Dets ==
    [ xyxy : { BoxOverhang }, conf : Confs ]
        \cup [ xyxy : RawBoxes, conf : { Threshold + 1 } ]

RECURSIVE SeqsUpTo(_, _)
SeqsUpTo(S, n) ==
    IF n = 0 THEN { <<>> }
    ELSE LET shorter == SeqsUpTo(S, n - 1)
         IN  shorter \cup { Append(s, d) : s \in shorter, d \in S }

\* What one call model(frame) can return: r.boxes, in order.
DetectorResults == SeqsUpTo(Dets, MaxBoxes)

Pixels == (0 .. FrameH - 1) \X (0 .. FrameW - 1)

\* The pixels of the n-th decoded frame; all distinct, different per frame.
SourcePixels(n) == [ p \in Pixels |-> 10 * (p[1] * FrameW + p[2]) + n ]

NoFrame == [ src |-> 0, px |-> [ p \in Pixels |-> 0 ] ]

VARIABLES
    pipeline,            \* "images" | "videos": which function runs
    detection_interval,  \* parameter of blur_faces_in_videos
    pc,                  \* "start" | "load" | "loop" | "frames" | "returned"
    dirExists,           \* os.path.exists(output_dir)
    model,               \* "unloaded" | "loaded" | "failed"
    idx,                 \* items of the input list consumed so far
    outcome,             \* per consumed item: how its iteration ended
    files,               \* contents of the output directory
    streams,             \* acquired and not yet released capture/writer objects
    frame_number,
    last_known_faces,
    nRead,               \* successful cap.read() calls on the current video
    written,             \* source indices of the frames given to out.write
    frame,               \* the current frame, after the blur loop
    results,             \* what the detector returned on its last call
    detFrame,            \* the source index of the frame of that call (0: none)
    blurred              \* image pipeline: the boxes that passed the confidence test

vars == << pipeline, detection_interval, pc, dirExists, model, idx, outcome,
           files, streams, frame_number, last_known_faces, nRead, written, frame,
           results, detFrame, blurred >>

\* ------------------------------------------------------- pure operations
Max(a, b) == IF a >= b THEN a ELSE b
Min(a, b) == IF a <= b THEN a ELSE b

\* os.path.basename
Basename(p) == p[Len(p)]

\* os.path.join(output_dir, f"blurred_{name}")
OutputPath(p) == << output_dir, "blurred_" \o Basename(p) >>

\* int() of a float given in half pixels: truncation toward zero
ToInt(h) == IF h >= 0 THEN h \div 2 ELSE -((-h) \div 2)

\* map(int, box.xyxy[0])
IntBox(xyxy) == << ToInt(xyxy[1]), ToInt(xyxy[2]), ToInt(xyxy[3]), ToInt(xyxy[4]) >>

\* max(0, x1), max(0, y1), min(width, x2), min(height, y2)
ClampBox(b, width, height) ==
    << Max(0, b[1]), Max(0, b[2]), Min(width, b[3]), Min(height, b[4]) >>

\* The indices a Python slice [a:b] selects in a dimension of length n.
SliceStart(i, n) == IF i < 0 THEN Max(i + n, 0) ELSE Min(i, n)
SliceIndices(a, b, n) ==
    { k \in 0 .. n - 1 : SliceStart(a, n) <= k /\ k < SliceStart(b, n) }

\* frame[y1:y2, x1:x2] for a clamped box c
Roi(c) == SliceIndices(c[2], c[4], FrameH) \X SliceIndices(c[1], c[3], FrameW)

RECURSIVE SumPx(_, _)
SumPx(px, S) ==
    IF S = {} THEN 0
    ELSE LET p == CHOOSE q \in S : TRUE
         IN  px[p] + SumPx(px, S \ {p})

\* cv2.GaussianBlur(face_roi, blur_kernel, 0)
GaussianBlur(px, roi) == [ p \in roi |-> SumPx(px, roi) \div Cardinality(roi) ]

\* clamp, take the region, blur it in place when it is not empty
BlurBox(px, b) ==
    LET c == ClampBox(b, FrameW, FrameH)
        roi == Roi(c)
    IN  IF roi # {}
        THEN LET soft == GaussianBlur(px, roi)
             IN  [ p \in Pixels |-> IF p \in roi THEN soft[p] ELSE px[p] ]
        ELSE px

\* variant: the test written with >=
ImageConfidentOrEqual(conf) == conf >= Threshold

ImageConfident(conf) == conf > Threshold

VideoConfident(conf) == conf > Threshold

\* for r in results: for box in r.boxes: if confident: clamp, blur
RECURSIVE ImageBlurLoop(_, _, _)
ImageBlurLoop(st, res, i) ==
    IF i > Len(res) THEN st
    ELSE IF ImageConfident(res[i].conf)
         THEN ImageBlurLoop([ px |-> BlurBox(st.px, IntBox(res[i].xyxy)),
                              boxes |-> Append(st.boxes, IntBox(res[i].xyxy)) ],
                            res, i + 1)
         ELSE ImageBlurLoop(st, res, i + 1)

\* last_known_faces = []; append every confident box
RECURSIVE CollectFaces(_, _, _)
CollectFaces(faces, res, i) ==
    IF i > Len(res) THEN faces
    ELSE IF VideoConfident(res[i].conf)
         THEN CollectFaces(Append(faces, IntBox(res[i].xyxy)), res, i + 1)
         ELSE CollectFaces(faces, res, i + 1)

\* variant: new boxes appended to the old cache
RedetectMerged(old, res) == CollectFaces(old, res, 1)

Redetect(old, res) == CollectFaces(<<>>, res, 1)

\* frame_number % detection_interval == 0
DetectionDue(n, k) == n % k = 0

\* for (x1, y1, x2, y2) in last_known_faces: clamp, blur
RECURSIVE VideoBlurLoop(_, _, _)
VideoBlurLoop(px, faces, i) ==
    IF i > Len(faces) THEN px
    ELSE VideoBlurLoop(BlurBox(px, faces[i]), faces, i + 1)

\* variant: the frame is written twice
WriteFrameTwice(stream, f) == Append(Append(stream, f.src), f.src)

\* out.write(frame)
WriteFrame(stream, f) == Append(stream, f.src)

\* cv2.imwrite / cv2.VideoWriter: the file at that path is created or replaced
PutFile(dir, name, from, src) ==
    { f \in dir : f.name # name } \cup { [ name |-> name, from |-> from, src |-> src ] }

\* ---------------------------------------------------------------- state
Init ==
    /\ pipeline \in { "images", "videos" }
    /\ detection_interval \in 1 .. MaxInterval
    /\ pipeline = "images" => detection_interval = 1
    /\ pc = "start"
    /\ dirExists \in BOOLEAN
    /\ model = "unloaded"
    /\ idx = 0
    /\ outcome = <<>>
    /\ files = {}
    /\ streams = {}
    /\ frame_number = 0
    /\ last_known_faces = <<>>
    /\ nRead = 0
    /\ written = <<>>
    /\ frame = NoFrame
    /\ results = <<>>
    /\ detFrame = 0
    /\ blurred = <<>>

perFrame == << frame_number, last_known_faces, nRead, written, frame, results,
               detFrame, blurred >>

\* if not os.path.exists(output_dir): os.makedirs(output_dir)
EnsureOutputDir ==
    /\ pc = "start"
    /\ dirExists' = TRUE
    /\ pc' = "load"
    /\ UNCHANGED << pipeline, detection_interval, model, idx, outcome, files,
                    streams, perFrame >>

\* model = YOLO(...) succeeds
LoadModelOk ==
    /\ pc = "load"
    /\ model' = "loaded"
    /\ pc' = "loop"
    /\ UNCHANGED << pipeline, detection_interval, dirExists, idx, outcome,
                    files, streams, perFrame >>

\* variant: the return is missing
LoadFailureFallsThrough == "loop"

\* except Exception: print; return
LoadFailure == "returned"

LoadModelFail ==
    /\ pc = "load"
    /\ model' = "failed"
    /\ pc' = LoadFailure
    /\ UNCHANGED << pipeline, detection_interval, dirExists, idx, outcome,
                    files, streams, perFrame >>

\* the for loop finds no further item
EndOfList ==
    /\ pc = "loop"
    /\ pc' = "returned"
    /\ UNCHANGED << pipeline, detection_interval, dirExists, model, idx,
                    outcome, files, streams, perFrame >>

\* variant: return instead of continue
SkipReturns == "returned"

\* where a skipped item leaves the loop: continue
SkipTo == "loop"

\* if not os.path.exists(path): print; continue
SkipMissing(p) ==
    /\ pc = "loop"
    /\ idx < MaxInputs
    /\ idx' = idx + 1
    /\ outcome' = Append(outcome, "missing")
    /\ pc' = SkipTo
    /\ UNCHANGED << pipeline, detection_interval, dirExists, model, files, streams,
                    perFrame >>

\* frame = cv2.imread(image_path); if frame is None: print; continue
ImageUndecodable(p) ==
    /\ pc = "loop"
    /\ pipeline = "images"
    /\ idx < MaxInputs
    /\ idx' = idx + 1
    /\ outcome' = Append(outcome, "undecodable")
    /\ pc' = SkipTo
    /\ UNCHANGED << pipeline, detection_interval, dirExists, model, files, streams,
                    perFrame >>

\* one iteration of the image loop that reaches cv2.imwrite
ProcessImage(p, res) ==
    /\ pc = "loop"
    /\ pipeline = "images"
    /\ idx < MaxInputs
    /\ idx' = idx + 1
    /\ LET decoded == [ src |-> idx + 1, px |-> SourcePixels(idx + 1) ]
           done == ImageBlurLoop([ px |-> decoded.px, boxes |-> <<>> ], res, 1)
       IN  /\ results' = res
           /\ detFrame' = decoded.src
           /\ frame' = [ src |-> decoded.src, px |-> done.px ]
           /\ blurred' = done.boxes
    /\ files' = PutFile(files, OutputPath(p), idx + 1, p)
    /\ outcome' = Append(outcome, "ok")
    /\ pc' = "loop"
    /\ UNCHANGED << pipeline, detection_interval, dirExists, model, streams,
                    frame_number, last_known_faces, nRead, written >>

\* cap = cv2.VideoCapture(video_path); if not cap.isOpened(): print; continue
AfterFailedOpen(held, i) == held \cup { << "cap", i >> }

VideoUnopened(p) ==
    /\ pc = "loop"
    /\ pipeline = "videos"
    /\ idx < MaxInputs
    /\ idx' = idx + 1
    /\ streams' = AfterFailedOpen(streams, idx + 1)
    /\ outcome' = Append(outcome, "unopened")
    /\ pc' = SkipTo
    /\ UNCHANGED << pipeline, detection_interval, dirExists, model, files, perFrame >>

\* variant: the cache is initialised once, before the for loop
FreshFacesKept(old) == old

\* last_known_faces = [] at the start of each video
FreshFaces(old) == <<>>

\* the capture opens: the writer is created, frame_number = 0, last_known_faces = []
OpenVideo(p) ==
    /\ pc = "loop"
    /\ pipeline = "videos"
    /\ idx < MaxInputs
    /\ idx' = idx + 1
    /\ streams' = streams \cup { << "cap", idx + 1 >>, << "out", idx + 1 >> }
    /\ files' = PutFile(files, OutputPath(p), idx + 1, p)
    /\ frame_number' = 0
    /\ last_known_faces' = FreshFaces(last_known_faces)
    /\ nRead' = 0
    /\ written' = <<>>
    /\ frame' = NoFrame
    /\ results' = <<>>
    /\ detFrame' = 0
    /\ pc' = "frames"
    /\ UNCHANGED << pipeline, detection_interval, dirExists, model, outcome, blurred >>

\* one iteration of the while loop in which cap.read() returns a frame
ProcessFrame(res) ==
    /\ pc = "frames"
    /\ nRead < MaxFrames
    /\ DetectionDue(frame_number + 1, detection_interval) \/ res = <<>>
    /\ nRead' = nRead + 1
    /\ frame_number' = frame_number + 1
    /\ LET decoded == [ src |-> nRead + 1, px |-> SourcePixels(nRead + 1) ]
           due == DetectionDue(frame_number + 1, detection_interval)
           faces == IF due THEN Redetect(last_known_faces, res) ELSE last_known_faces
           done == [ src |-> decoded.src, px |-> VideoBlurLoop(decoded.px, faces, 1) ]
       IN  /\ results' = IF due THEN res ELSE results
           /\ detFrame' = IF due THEN decoded.src ELSE detFrame
           /\ last_known_faces' = faces
           /\ frame' = done
           /\ written' = WriteFrame(written, done)
    /\ UNCHANGED << pipeline, detection_interval, pc, dirExists, model, idx,
                    outcome, files, streams, blurred >>

\* ret is False: break; cap.release(); out.release()
EndOfStream ==
    /\ pc = "frames"
    /\ streams' = streams \ { << "cap", idx >>, << "out", idx >> }
    /\ outcome' = Append(outcome, "ok")
    /\ pc' = "loop"
    /\ UNCHANGED << pipeline, detection_interval, dirExists, model, idx, files,
                    perFrame >>

Next ==
    \/ EnsureOutputDir
    \/ LoadModelOk
    \/ LoadModelFail
    \/ EndOfList
    \/ \E p \in Paths : SkipMissing(p)
    \/ \E p \in Paths : ImageUndecodable(p)
    \/ \E p \in Paths : \E res \in DetectorResults : ProcessImage(p, res)
    \/ \E p \in Paths : VideoUnopened(p)
    \/ \E p \in Paths : OpenVideo(p)
    \/ \E res \in DetectorResults : ProcessFrame(res)
    \/ EndOfStream

Spec == Init /\ [][Next]_vars

\* ------------------------------------------------------------- properties
\* The boxes of a detector answer whose confidence is above the threshold, in order.
AboveThreshold(res) ==
    LET kept == SelectSeq(res, LAMBDA d : d.conf > Threshold)
    IN  [ i \in 1 .. Len(kept) |-> IntBox(kept[i].xyxy) ]

\* The boxes the blur loop ran over on the current frame.
BoxesOnFrame == IF pipeline = "images" THEN blurred ELSE last_known_faces

NumOk == Cardinality({ i \in DOMAIN outcome : outcome[i] = "ok" })

\* C1: in the video pipeline, after frame n of any video of the batch, the detector's
\* last run was on frame K*floor(n/K) (none when n < K), and the boxes blurred on
\* frame n are exactly the above-threshold boxes of that run (none when n < K).
C1_CacheFollowsLastDetection ==
    (pipeline = "videos" /\ frame_number >= 1) =>
        LET n == frame_number
            K == detection_interval
        IN  /\ frame.src = n
            /\ detFrame = K * (n \div K)
            /\ last_known_faces = IF n < K THEN <<>> ELSE AboveThreshold(results)
            /\ (n < K => frame.px = SourcePixels(n))

C1_Witness ==
    /\ pipeline = "videos"
    /\ idx = 2
    /\ detection_interval = 2
    /\ frame_number = 3
    /\ detFrame = 2
    /\ Len(last_known_faces) = 1

\* C2: in the video pipeline the frames written are the frames read, one for one and
\* in order: the i-th frame written comes from the i-th frame read.
C2_WrittenFollowsRead ==
    pipeline = "videos" =>
        /\ Len(written) = nRead
        /\ \A i \in DOMAIN written : written[i] = i

C2_Witness ==
    /\ pipeline = "videos"
    /\ pc = "loop"
    /\ nRead = 3
    /\ Len(written) = 3
    /\ last_known_faces # <<>>

\* C3: the confidence test is strict in both pipelines: the boxes blurred on an image,
\* and the boxes put in the cache by a detection on a video frame, are exactly those
\* of confidence strictly above the threshold; one at the threshold is left out.
C3_StrictThreshold ==
    /\ pipeline = "images" => blurred = AboveThreshold(results)
    /\ (pipeline = "videos" /\ frame_number >= 1 /\ detFrame = frame_number) =>
           last_known_faces = AboveThreshold(results)
    /\ \A i \in DOMAIN results :
           results[i].conf = Threshold =>
               Len(BoxesOnFrame) < Len(results)

C3_Witness ==
    /\ pipeline = "images"
    /\ idx >= 1
    /\ \E i \in DOMAIN results : results[i].conf = Threshold
    /\ blurred = <<>>
    /\ frame.px = SourcePixels(frame.src)

C3_WitnessVideo ==
    /\ pipeline = "videos"
    /\ detFrame = frame_number
    /\ \E i \in DOMAIN results : results[i].conf = Threshold
    /\ last_known_faces = <<>>

\* C4: every pixel outside the intersection of the frame with the above-threshold
\* boxes is the same in the output frame as in the input frame.
C4_OnlyBoxPixelsChange ==
    frame.src >= 1 =>
        \A p \in Pixels :
            (~ \E i \in DOMAIN BoxesOnFrame :
                   LET b == BoxesOnFrame[i]
                   IN  /\ b[1] <= p[2] /\ p[2] < b[3]
                       /\ b[2] <= p[1] /\ p[1] < b[4])
                => frame.px[p] = SourcePixels(frame.src)[p]

\* C5: the clamp of every box the pipelines clamp lies in the frame and is ordered:
\* 0 <= x1 <= x2 <= W and 0 <= y1 <= y2 <= H.
C5_ClampInFrame ==
    \A i \in DOMAIN BoxesOnFrame :
        LET c == ClampBox(BoxesOnFrame[i], FrameW, FrameH)
        IN  /\ 0 <= c[1] /\ c[1] <= c[3] /\ c[3] <= FrameW
            /\ 0 <= c[2] /\ c[2] <= c[4] /\ c[4] <= FrameH

\* C6: an input that is missing, undecodable or unopenable produces no output file
\* and leaves the loop running for the inputs after it; there are never more output
\* files than inputs, and none when every input failed.
C6_FailuresAreIsolated ==
    /\ [](/\ \A f \in files : f.from <= Len(outcome) => outcome[f.from] = "ok"
          /\ Cardinality(files) <= idx
          /\ (Len(outcome) = idx /\ NumOk = 0) => files = {})
    /\ [][(/\ Len(outcome') = Len(outcome) + 1
           /\ outcome'[Len(outcome')] # "ok")
              => /\ pc' = "loop"
                 /\ files' = files
                 /\ model' = model
                 /\ perFrame' = perFrame]_vars

C6_Witness ==
    /\ pc = "returned"
    /\ Len(outcome) = 2
    /\ outcome[1] # "ok"
    /\ outcome[2] = "ok"
    /\ Cardinality(files) = 1

\* C7: when the model fails to load the function has returned, no input has been
\* taken from the list, no frame read and no output file written.
C7_LoadFailureIsFatal ==
    model = "failed" =>
        /\ pc = "returned"
        /\ idx = 0
        /\ outcome = <<>>
        /\ files = {}
        /\ streams = {}
        /\ nRead = 0
        /\ frame = NoFrame

C7_Witness ==
    /\ model = "failed"
    /\ pc = "returned"
    /\ dirExists

\* C8: when the run has returned, the output directory holds as many files as there
\* were successfully processed inputs, each named blurred_<basename of its input>.
C8_OneFilePerSuccess ==
    (pc = "returned" /\ model = "loaded") =>
        /\ Cardinality(files) = NumOk
        /\ \A f \in files : f.name = << output_dir, "blurred_" \o Basename(f.src) >>

\* C9: with detection_interval = 1 the detector runs on every frame and the frame
\* written equals the image pipeline's blur loop run on that frame with that answer.
C9_IntervalOneIsImageStep ==
    (pipeline = "videos" /\ detection_interval = 1 /\ frame_number >= 1) =>
        /\ detFrame = frame_number
        /\ LET alone == ImageBlurLoop([ px |-> SourcePixels(frame.src), boxes |-> <<>> ],
                                      results, 1)
           IN  /\ frame.px = alone.px
               /\ last_known_faces = alone.boxes

C9_Witness ==
    /\ pipeline = "videos"
    /\ detection_interval = 1
    /\ frame_number = 2
    /\ last_known_faces # <<>>
    /\ frame.px # SourcePixels(2)

\* C10: only the video being processed holds streams, and none is held once its
\* processing is over: between videos and at the return every capture and writer
\* that was acquired has been released.
C10_StreamsReleased ==
    /\ \A s \in streams : s[2] = idx
    /\ pc \in { "loop", "returned" } => streams = {}

====
